---- MODULE Spec2Model ----
(***************************************************************************)
(* Model of allennlp/commands/train.py: train_model (one node's parent     *)
(* process), _train_worker (the training workers, spawned or inline) and   *)
(* TrainModel.from_partial_objects (the lazy construction chain).          *)
(*                                                                         *)
(*   Spec       one node running train_model with its local workers; the   *)
(*              workers of the other nodes are seen only through the       *)
(*              number of them that reached dist.barrier().                *)
(*   SpecWorld  the workers of all nodes of one training group, from the   *)
(*              moment every node's mp.spawn has started them.             *)
(*   SpecBuild  one call of TrainModel.from_partial_objects.               *)
(***************************************************************************)
EXTENDS Integers, Sequences, FiniteSets, TLC

\* ------------------------------------------------------------------ bounds
MaxNodes == 2
MaxDevices == 2
MaxInstances == 2

\* --------------------------------------------------------------- variables
VARIABLES
    cfg,                \* the experiment config as train_model sees it
    node_rank,          \* train_model's node_rank argument
    pc,                 \* where train_model is
    err,                \* the exception train_model raised ("None" if none)
    params_vocabulary,  \* params["vocabulary"] of the parent's params
    vocab_dir,          \* what serialization_dir/vocabulary holds
    num_procs,          \* len(device_ids), -1 before it is computed
    world_size,         \* num_nodes * num_procs, -1 before it is computed
    workers,            \* <<node, process_rank>> -> state of that _train_worker
    remote_arrived,     \* Spec only: other nodes' workers waiting in dist.barrier()
    parent_archives,    \* archive_model calls made by train_model
    worker_archives,    \* archive_model calls made by a worker (KeyboardInterrupt)
    returned,           \* what train_model returned ("None" before)
    bin,                \* from_partial_objects: its arguments
    bpc,                \* from_partial_objects: where it is
    berr,               \* from_partial_objects: the exception it raised
    datasets,           \* key -> instances read
    generator,          \* instance_generator: "None" or [items, consumed]
    vocabulary_,        \* "None" or the Vocabulary constructed
    model_,             \* "None" or the Model constructed
    trainer_,           \* "None" or the TrainerBase constructed
    saved_vocab,        \* the vocabulary written by save_to_files ("None" before)
    order               \* the constructions done so far, in order

trainVars == <<cfg, node_rank, pc, err, params_vocabulary, vocab_dir, num_procs,
               world_size, workers, remote_arrived, parent_archives,
               worker_archives, returned>>
buildVars == <<bin, bpc, berr, datasets, generator, vocabulary_, model_, trainer_,
               saved_vocab, order>>
vars == <<trainVars, buildVars>>

\* ----------------------------------------------------------- config values
NoDevices == [kind |-> "None", n |-> 0]

\* cuda_devices: absent (None), a single int, or a list of n device ids
CudaDevices ==
    {NoDevices, [kind |-> "int", n |-> 0]}
        \cup {[kind |-> "list", n |-> n] : n \in 0..MaxDevices}

Configs ==
    {[distributed |-> FALSE, cuda_devices |-> NoDevices, num_nodes |-> 1]}
        \cup {[distributed |-> TRUE, cuda_devices |-> d, num_nodes |-> n] :
                d \in CudaDevices, n \in 1..MaxNodes}
\* len(device_ids) >= 1
multi_device_ge1(device_ids) == device_ids.kind = "list" /\ device_ids.n >= 1

\* isinstance(device_ids, list) and len(device_ids) > 1
multi_device(device_ids) == device_ids.kind = "list" /\ device_ids.n > 1

\* not (multi_device or num_nodes > 1): the guard of the "good error"
NotDistributable(c) == ~(multi_device(c.cuda_devices) \/ c.num_nodes > 1)

\* ------------------------------------------------------------------ workers
NoWorkers == [w \in {} |-> 0]

\* the arguments train_model gives to _train_worker, and the worker's start
NewWorker(process_rank, nrank, wsize, pvocab) ==
    [pc |-> "started", process_rank |-> process_rank, node_rank |-> nrank,
     world_size |-> wsize, params_vocabulary |-> pvocab, rank |-> -1,
     vocab |-> "None", vocab_from |-> "None", barrier |-> FALSE,
     model |-> "None", exc |-> "None"]
\* distributed = world_size >= 1
distributed_ge(w) == workers[w].world_size >= 1

\* distributed = world_size > 1
distributed(w) == workers[w].world_size > 1

\* master = process_rank == 0
master(w) == workers[w].process_rank = 0

\* ------------------------------------------------- from_partial_objects values
NoDatasets == [k \in {} |-> <<>>]
NoArguments == [paths |-> {}, datasets_for_vocab_creation |-> {},
                dfvc_given |-> FALSE, vocabulary |-> "None"]
NoGenerator == [made |-> FALSE, items |-> <<>>, consumed |-> 0]
NoVocabulary == [made |-> FALSE, instances |-> <<>>, how |-> "None"]
NoModel == [made |-> FALSE, vocab |-> NoVocabulary]
NoTrainer == [made |-> FALSE, model |-> NoModel, train_data |-> <<>>,
              validation_data |-> <<>>, has_validation |-> FALSE]

\* ------------------------------------------------------------------- Init
InitBuildIdle ==
    /\ bin = NoArguments /\ bpc = "idle" /\ berr = "None"
    /\ datasets = NoDatasets /\ generator = NoGenerator
    /\ vocabulary_ = NoVocabulary /\ model_ = NoModel /\ trainer_ = NoTrainer
    /\ saved_vocab = NoVocabulary /\ order = <<>>

\* after create_serialization_dir and params.to_file
Init ==
    /\ cfg \in Configs
    /\ node_rank \in 0..(cfg.num_nodes - 1)
    /\ pc = "start"
    /\ err = "None"
    /\ params_vocabulary = "config"
    /\ vocab_dir = "absent"
    /\ num_procs = -1
    /\ world_size = -1
    /\ workers = NoWorkers
    /\ remote_arrived = 0
    /\ parent_archives = 0
    /\ worker_archives = 0
    /\ returned = "None"
    /\ InitBuildIdle

\* ----------------------------------------------------------- train_model
\* no "distributed" section: run _train_worker in this process
train_model_single ==
    /\ pc = "start"
    /\ ~cfg.distributed
    /\ workers' = [w \in {<<0, 0>>} |-> NewWorker(0, 0, 1, params_vocabulary)]
    /\ pc' = "in_worker"
    /\ UNCHANGED <<cfg, node_rank, err, params_vocabulary, vocab_dir, num_procs,
                   world_size, remote_arrived, parent_archives, worker_archives,
                   returned>>
    /\ UNCHANGED buildVars

\* the inline worker returned: archive and return its model
train_model_single_return ==
    /\ pc = "in_worker"
    /\ workers[<<0, 0>>].pc = "done"
    /\ parent_archives' = parent_archives + 1
    /\ returned' = workers[<<0, 0>>].model
    /\ pc' = "returned"
    /\ UNCHANGED <<cfg, node_rank, err, params_vocabulary, vocab_dir, num_procs,
                   world_size, workers, remote_arrived, worker_archives>>
    /\ UNCHANGED buildVars

\* the inline worker raised: the exception leaves train_model
train_model_single_raise ==
    /\ pc = "in_worker"
    /\ workers[<<0, 0>>].pc = "failed"
    /\ err' = workers[<<0, 0>>].exc
    /\ pc' = "raised"
    /\ UNCHANGED <<cfg, node_rank, params_vocabulary, vocab_dir, num_procs,
                   world_size, workers, remote_arrived, parent_archives,
                   worker_archives, returned>>
    /\ UNCHANGED buildVars

\* the "distributed" section is read and checked, up to world_size
train_model_validate ==
    /\ pc = "start"
    /\ cfg.distributed
    /\ \E gpu_ok \in BOOLEAN :
        IF NotDistributable(cfg)
        THEN /\ pc' = "raised" /\ err' = "ConfigurationError"
             /\ UNCHANGED <<num_procs, world_size>>
        ELSE IF ~gpu_ok
        THEN \* check_for_gpu raises
             /\ pc' = "raised" /\ err' = "ConfigurationError"
             /\ UNCHANGED <<num_procs, world_size>>
        ELSE IF cfg.cuda_devices.kind # "list"
        THEN \* len(device_ids) of None or of an int
             /\ pc' = "raised" /\ err' = "TypeError"
             /\ UNCHANGED <<num_procs, world_size>>
        ELSE /\ pc' = "validated" /\ err' = err
             /\ num_procs' = cfg.cuda_devices.n
             /\ world_size' = cfg.num_nodes * cfg.cuda_devices.n
    /\ UNCHANGED <<cfg, node_rank, params_vocabulary, vocab_dir, workers,
                   remote_arrived, parent_archives, worker_archives, returned>>
    /\ UNCHANGED buildVars
\* the entry left as the config gave it
VocabularyEntry_kept(old) == old

\* params["vocabulary"] after make_vocab_from_params: the "from_files" entry
\* pointing at serialization_dir/vocabulary
VocabularyEntry(old) == "from_files"

\* the vocabulary is built from all the data and written, params are redirected
make_vocab_from_params ==
    /\ pc = "validated"
    /\ \E ok \in BOOLEAN :
        IF ok
        THEN /\ vocab_dir' = "all_instances"
             /\ params_vocabulary' = VocabularyEntry(params_vocabulary)
             /\ pc' = "vocab_ready" /\ err' = err
        ELSE /\ pc' = "raised" /\ err' = "ConfigurationError"
             /\ UNCHANGED <<vocab_dir, params_vocabulary>>
    /\ UNCHANGED <<cfg, node_rank, num_procs, world_size, workers, remote_arrived,
                   parent_archives, worker_archives, returned>>
    /\ UNCHANGED buildVars

\* the workers mp.spawn starts: nprocs of them, process_rank 0..nprocs-1, each
\* with a duplicate of params and the parent's node_rank and world_size
SpawnedWorkers(nrank, nprocs, wsize, pvocab) ==
    [w \in {<<nrank, p>> : p \in 0..(nprocs - 1)} |->
        NewWorker(w[2], nrank, wsize, pvocab)]

mp_spawn ==
    /\ pc = "vocab_ready"
    /\ workers' = SpawnedWorkers(node_rank, num_procs, world_size, params_vocabulary)
    /\ pc' = "spawned"
    /\ UNCHANGED <<cfg, node_rank, err, params_vocabulary, vocab_dir, num_procs,
                   world_size, remote_arrived, parent_archives, worker_archives,
                   returned>>
    /\ UNCHANGED buildVars
\* a join that returns with the first process that exits normally
SpawnJoined_any == \E w \in DOMAIN workers : workers[w].pc = "done"

\* mp.spawn joins: it returns once every process it started exited normally
SpawnJoined == \A w \in DOMAIN workers : workers[w].pc = "done"

\* mp.spawn returned: archive_model, Model.load, return
train_model_archive ==
    /\ pc = "spawned"
    /\ SpawnJoined
    /\ parent_archives' = parent_archives + 1
    /\ returned' = "Model.load"
    /\ pc' = "returned"
    /\ UNCHANGED <<cfg, node_rank, err, params_vocabulary, vocab_dir, num_procs,
                   world_size, workers, remote_arrived, worker_archives>>
    /\ UNCHANGED buildVars

\* a spawned process failed: mp.spawn terminates the others and raises
mp_spawn_raise ==
    /\ pc = "spawned"
    /\ \E f \in DOMAIN workers : workers[f].pc = "failed"
    /\ workers' = [w \in DOMAIN workers |->
                     IF workers[w].pc \in {"done", "failed"}
                     THEN workers[w]
                     ELSE [workers[w] EXCEPT !.pc = "terminated"]]
    /\ err' = "ProcessRaisedException"
    /\ pc' = "raised"
    /\ UNCHANGED <<cfg, node_rank, params_vocabulary, vocab_dir, num_procs,
                   world_size, remote_arrived, parent_archives, worker_archives,
                   returned>>
    /\ UNCHANGED buildVars
\* the rank without the node stride
GlobalRank_sum(nrank, num_procs_per_node, process_rank) == nrank + process_rank

\* --------------------------------------------------------- _train_worker
\* global_rank = node_rank * num_procs_per_node + process_rank
GlobalRank(nrank, num_procs_per_node, process_rank) ==
    nrank * num_procs_per_node + process_rank

\* len(distributed_device_ids): the workers of one node share the device list
NumProcsPerNode(w) == Cardinality({v \in DOMAIN workers : v[1] = w[1]})

\* if distributed: ... dist.init_process_group(world_size, rank=global_rank)
init_process_group(w) ==
    /\ workers[w].pc = "started"
    /\ distributed(w)
    /\ workers' = [workers EXCEPT
                     ![w].rank = GlobalRank(workers[w].node_rank, NumProcsPerNode(w),
                                            workers[w].process_rank),
                     ![w].pc = "group"]
    /\ UNCHANGED <<cfg, node_rank, pc, err, params_vocabulary, vocab_dir, num_procs,
                   world_size, remote_arrived, parent_archives, worker_archives,
                   returned>>
    /\ UNCHANGED buildVars

\* the vocabulary TrainModel.from_params ends with: loaded from the directory
\* when params say from_files, else built from the instances this worker's
\* readers yield (only the rank's own in distributed mode)
WorkerVocab(pvocab, dist, dir) ==
    IF pvocab = "from_files" THEN dir
    ELSE IF dist THEN "rank_instances" ELSE "all_instances"

WorkerVocabFrom(pvocab) ==
    IF pvocab = "from_files" THEN "from_files" ELSE "from_instances"

\* where the worker stands after from_params: waiting in dist.barrier() when
\* distributed, about to call train_loop.run() otherwise
AfterFromParams(dist) == IF dist THEN "barrier" ELSE "built"

\* common_util.is_master(): "in the degenerate non-distributed case, we're
\* trivially the master"; in a process group it depends on the rank
IsMaster(dist) == IF dist THEN BOOLEAN ELSE {TRUE}

\* train_loop = TrainModel.from_params(...), then dist.barrier() is entered
from_params(w) ==
    /\ workers[w].pc = IF distributed(w) THEN "group" ELSE "started"
    /\ \E ok \in BOOLEAN, is_master \in IsMaster(distributed(w)) :
        LET pv == workers[w].params_vocabulary
            v == WorkerVocab(pv, distributed(w), vocab_dir)
        IN  IF ok /\ v # "absent"
            THEN /\ workers' = [workers EXCEPT
                                  ![w].vocab = v,
                                  ![w].vocab_from = WorkerVocabFrom(pv),
                                  ![w].model = "train_loop.model",
                                  ![w].barrier = distributed(w),
                                  ![w].pc = AfterFromParams(distributed(w))]
                 /\ vocab_dir' = IF is_master THEN v ELSE vocab_dir
            ELSE /\ workers' = [workers EXCEPT ![w].pc = "failed",
                                               ![w].exc = "Exception"]
                 /\ UNCHANGED vocab_dir
    /\ UNCHANGED <<cfg, node_rank, pc, err, params_vocabulary, num_procs,
                   world_size, remote_arrived, parent_archives, worker_archives,
                   returned>>
    /\ UNCHANGED buildVars

\* the workers of the group that are not in this model's worker set
RemoteWorkers(w) == workers[w].world_size - Cardinality(DOMAIN workers)
\* a barrier that waits for nobody else
BarrierOpen_self(w) == workers[w].barrier

\* dist.barrier() lets a worker go once all world_size workers entered it
BarrierOpen(w) ==
    /\ \A v \in DOMAIN workers : workers[v].barrier
    /\ remote_arrived >= RemoteWorkers(w)

\* metrics = train_loop.run() begins
train_loop_run(w) ==
    /\ IF distributed(w)
       THEN workers[w].pc = "barrier" /\ BarrierOpen(w)
       ELSE workers[w].pc = "built"
    /\ workers' = [workers EXCEPT ![w].pc = "running"]
    /\ UNCHANGED <<cfg, node_rank, pc, err, params_vocabulary, vocab_dir, num_procs,
                   world_size, remote_arrived, parent_archives, worker_archives,
                   returned>>
    /\ UNCHANGED buildVars

\* train_loop.run() returned: finish(metrics) on the master, then return
train_loop_finish(w) ==
    /\ workers[w].pc = "running"
    /\ workers' = [workers EXCEPT ![w].pc = "done"]
    /\ UNCHANGED <<cfg, node_rank, pc, err, params_vocabulary, vocab_dir, num_procs,
                   world_size, remote_arrived, parent_archives, worker_archives,
                   returned>>
    /\ UNCHANGED buildVars

\* train_loop.run() raised; on KeyboardInterrupt the master archives the best
\* weights if an epoch completed (the weights file exists), then re-raises
train_loop_raise(w) ==
    /\ workers[w].pc = "running"
    /\ \E exc \in {"Exception", "KeyboardInterrupt"}, weights_exist \in BOOLEAN :
        /\ workers' = [workers EXCEPT ![w].pc = "failed", ![w].exc = exc]
        /\ worker_archives' =
             IF exc = "KeyboardInterrupt" /\ master(w) /\ weights_exist
             THEN worker_archives + 1
             ELSE worker_archives
    /\ UNCHANGED <<cfg, node_rank, pc, err, params_vocabulary, vocab_dir, num_procs,
                   world_size, remote_arrived, parent_archives, returned>>
    /\ UNCHANGED buildVars

\* a worker of another node enters dist.barrier()
remote_barrier ==
    /\ pc = "spawned"
    /\ remote_arrived < world_size - num_procs
    /\ remote_arrived' = remote_arrived + 1
    /\ UNCHANGED <<cfg, node_rank, pc, err, params_vocabulary, vocab_dir, num_procs,
                   world_size, workers, parent_archives, worker_archives, returned>>
    /\ UNCHANGED buildVars

Next ==
    \/ train_model_single
    \/ train_model_single_return
    \/ train_model_single_raise
    \/ train_model_validate
    \/ make_vocab_from_params
    \/ mp_spawn
    \/ train_model_archive
    \/ mp_spawn_raise
    \/ remote_barrier
    \/ \E w \in DOMAIN workers : init_process_group(w)
    \/ \E w \in DOMAIN workers : from_params(w)
    \/ \E w \in DOMAIN workers : train_loop_run(w)
    \/ \E w \in DOMAIN workers : train_loop_finish(w)
    \/ \E w \in DOMAIN workers : train_loop_raise(w)

Spec == Init /\ [][Next]_vars

\* ------------------------------------------------------------- the group
\* the "distributed" sections train_model accepts and spawns workers for
WorldConfigs ==
    {c \in Configs : /\ c.distributed
                     /\ ~NotDistributable(c)
                     /\ c.cuda_devices.kind = "list"
                     /\ c.cuda_devices.n >= 1}

\* the workers of every node: node n ran train_model with node_rank n
WorldWorkers(c) ==
    [w \in (0..(c.num_nodes - 1)) \X (0..(c.cuda_devices.n - 1)) |->
        SpawnedWorkers(w[1], c.cuda_devices.n, c.num_nodes * c.cuda_devices.n,
                       VocabularyEntry("config"))[w]]

\* every node of the group has reached mp.spawn with the same config
InitWorld ==
    /\ cfg \in WorldConfigs
    /\ node_rank = 0
    /\ pc = "world"
    /\ err = "None"
    /\ params_vocabulary = VocabularyEntry("config")
    /\ vocab_dir = "all_instances"
    /\ num_procs = cfg.cuda_devices.n
    /\ world_size = cfg.num_nodes * cfg.cuda_devices.n
    /\ workers = WorldWorkers(cfg)
    /\ remote_arrived = 0
    /\ parent_archives = 0
    /\ worker_archives = 0
    /\ returned = "None"
    /\ InitBuildIdle

NextWorld ==
    \/ \E w \in DOMAIN workers : init_process_group(w)
    \/ \E w \in DOMAIN workers : from_params(w)
    \/ \E w \in DOMAIN workers : train_loop_run(w)

\* an open barrier releases every worker waiting in it
SpecWorld ==
    /\ InitWorld
    /\ [][NextWorld]_vars
    /\ \A w \in (0..(MaxNodes - 1)) \X (0..(MaxDevices - 1)) :
         WF_vars(w \in DOMAIN workers /\ train_loop_run(w))

\* ------------------------------------------------------------------ C3
InGroup == {w \in DOMAIN workers : workers[w].rank # -1}

\* C3: the global ranks passed to init_process_group identify the workers:
\* no two workers of the group use the same rank, every rank lies in
\* 0..world_size-1, and once every worker has joined the ranks are exactly
\* 0..world_size-1 with world_size = num_nodes * num_procs.
C3_GlobalRankUnique ==
    pc = "world" =>
        /\ \A v, w \in InGroup : v # w => workers[v].rank # workers[w].rank
        /\ \A w \in InGroup :
             /\ workers[w].rank \in 0..(workers[w].world_size - 1)
             /\ workers[w].world_size = cfg.num_nodes * cfg.cuda_devices.n
        /\ InGroup = DOMAIN workers =>
             {workers[w].rank : w \in InGroup}
                = 0..(cfg.num_nodes * cfg.cuda_devices.n - 1)

C3_Witness ==
    /\ pc = "world"
    /\ cfg.num_nodes >= 2 /\ cfg.cuda_devices.n >= 2
    /\ InGroup = DOMAIN workers

\* ------------------------------------------------------------------ C10
SetUp(w) == workers[w].barrier /\ workers[w].rank # -1 /\ workers[w].model # "None"
Training(w) == workers[w].pc = "running"

C1_VocabularyBeforeSpawn ==
    cfg.distributed =>
        /\ DOMAIN workers # {} =>
             /\ vocab_dir = "all_instances"
             /\ params_vocabulary = "from_files"
        /\ \A w \in DOMAIN workers :
             /\ workers[w].params_vocabulary = "from_files"
             /\ workers[w].vocab_from \in {"None", "from_files"}
             /\ workers[w].vocab \in {"None", "all_instances"}

C1_Witness ==
    /\ cfg.distributed
    /\ pc = "spawned"
    /\ \E w \in DOMAIN workers :
         /\ workers[w].process_rank > 0
         /\ workers[w].vocab_from = "from_files"
         /\ workers[w].vocab = "all_instances"

\* ------------------------------------------------------------------ C4
\* C4: without a "distributed" section there is exactly one worker, run in
\* the calling process with process_rank 0 and world_size 1, which joins no
\* process group and calls no barrier; once it has returned normally
\* archive_model has been called exactly once and train_model returns the
\* model of that worker's train loop.
C4_SingleProcess ==
    ~cfg.distributed =>
        /\ DOMAIN workers \subseteq {<<0, 0>>}
        /\ \A w \in DOMAIN workers :
             /\ workers[w].process_rank = 0
             /\ workers[w].world_size = 1
             /\ workers[w].rank = -1
             /\ ~workers[w].barrier
        /\ pc = "returned" =>
             /\ DOMAIN workers = {<<0, 0>>}
             /\ workers[<<0, 0>>].pc = "done"
             /\ parent_archives = 1
             /\ worker_archives = 0
             /\ returned = "train_loop.model"
             /\ returned = workers[<<0, 0>>].model
        /\ pc # "returned" => parent_archives = 0 /\ returned = "None"

C4_Witness ==
    /\ ~cfg.distributed
    /\ pc = "returned"
    /\ workers[<<0, 0>>].pc = "done"

\* ------------------------------------------------------------------ C5
AllWorkersSucceeded ==
    /\ Cardinality(DOMAIN workers) = num_procs
    /\ \A w \in DOMAIN workers : workers[w].pc = "done"

\* C5: in distributed mode the parent archives only after all num_procs
\* spawned workers terminated successfully and only then loads and returns
\* the model; if a spawned worker fails it neither archives nor returns.
C5_ArchiveAfterWorkers ==
    cfg.distributed =>
        /\ parent_archives > 0 => AllWorkersSucceeded
        /\ returned # "None" =>
             /\ AllWorkersSucceeded
             /\ parent_archives = 1
             /\ returned = "Model.load"
        /\ (\E w \in DOMAIN workers : workers[w].pc = "failed") =>
             /\ parent_archives = 0
             /\ returned = "None"
             /\ pc # "returned"

C5_Witness ==
    /\ cfg.distributed
    /\ pc = "returned"
    /\ num_procs >= 2
    /\ AllWorkersSucceeded
    /\ parent_archives = 1

\* ------------------------------------------------------------------ C6
\* C6: a "distributed" section whose cuda_devices is not a list of more than
\* one device and whose num_nodes is not greater than 1 makes train_model
\* raise ConfigurationError before any vocabulary is built, any worker is
\* spawned or any archive is created.
C6_BadDistributedSection ==
    ( /\ cfg.distributed
      /\ ~(cfg.cuda_devices.kind = "list" /\ cfg.cuda_devices.n > 1)
      /\ ~(cfg.num_nodes > 1)
      /\ pc # "start" ) =>
        /\ pc = "raised"
        /\ err = "ConfigurationError"
        /\ vocab_dir = "absent"
        /\ params_vocabulary = "config"
        /\ DOMAIN workers = {}
        /\ parent_archives = 0
        /\ worker_archives = 0

C6_Witness ==
    /\ cfg.distributed
    /\ cfg.cuda_devices.kind = "list" /\ cfg.cuda_devices.n = 1
    /\ cfg.num_nodes = 1
    /\ pc = "raised"

\* ------------------------------------------------------------------ C7
\* C7: cuda_devices is required: a "distributed" section that omits it, or
\* gives something that is not a list, makes train_model fail with
\* ConfigurationError whatever num_nodes is, and no worker is spawned.
C7_CudaDevicesRequired ==
    ( /\ cfg.distributed
      /\ cfg.cuda_devices.kind # "list"
      /\ pc # "start" ) =>
        /\ pc = "raised"
        /\ err = "ConfigurationError"
        /\ DOMAIN workers = {}

\* ------------------------------------------------- from_partial_objects
\* datasets.items() order: read_all_datasets inserts train, validation, test
KeyOrder == <<"train", "validation", "test">>

VocabularyKinds == {"absent", "from_instances", "from_files"}

\* train_data_path is required; validation_data_path and test_data_path,
\* datasets_for_vocab_creation and vocabulary are optional
Arguments ==
    {a \in [paths : {{"train"} \cup p : p \in SUBSET {"validation", "test"}},
            datasets_for_vocab_creation : SUBSET {"train", "validation", "test"},
            dfvc_given : BOOLEAN,
            vocabulary : VocabularyKinds] :
        a.dfvc_given \/ a.datasets_for_vocab_creation = {}}

InitBuild ==
    /\ cfg = [distributed |-> FALSE, cuda_devices |-> NoDevices, num_nodes |-> 1]
    /\ node_rank = 0
    /\ pc = "build"
    /\ err = "None"
    /\ params_vocabulary = "config"
    /\ vocab_dir = "absent"
    /\ num_procs = -1
    /\ world_size = -1
    /\ workers = NoWorkers
    /\ remote_arrived = 0
    /\ parent_archives = 0
    /\ worker_archives = 0
    /\ returned = "None"
    /\ bin \in Arguments
    /\ bpc = "start"
    /\ berr = "None"
    /\ datasets = NoDatasets
    /\ generator = NoGenerator
    /\ vocabulary_ = NoVocabulary
    /\ model_ = NoModel
    /\ trainer_ = NoTrainer
    /\ saved_vocab = NoVocabulary
    /\ order = <<>>

\* the instances a reader yields for one path: n of them, each its own object
Instances(key, n) == [i \in 1..n |-> <<key, i>>]

\* training_util.read_all_datasets: one dataset per path given
read_all_datasets ==
    /\ bpc = "start"
    /\ \E ok \in BOOLEAN, size \in [bin.paths -> 0..MaxInstances] :
        IF ok
        THEN /\ datasets' = [k \in bin.paths |-> Instances(k, size[k])]
             /\ order' = Append(order, "data")
             /\ bpc' = "read" /\ berr' = berr
        ELSE /\ bpc' = "raised" /\ berr' = "Exception"
             /\ UNCHANGED <<datasets, order>>
    /\ UNCHANGED <<bin, generator, vocabulary_, model_, trainer_, saved_vocab>>
    /\ UNCHANGED trainVars
\* key in datasets_for_vocab_creation
Selected_strict(key, dfvc) == key \in dfvc

\* if not datasets_for_vocab_creation or key in datasets_for_vocab_creation
Selected(key, dfvc) == dfvc = {} \/ key \in dfvc

RECURSIVE Flatten(_, _, _)
\* the instances of the selected datasets, in datasets.items() order
Flatten(ds, dfvc, keys) ==
    IF keys = <<>> THEN <<>>
    ELSE LET k == Head(keys)
         IN  (IF k \in DOMAIN ds /\ Selected(k, dfvc) THEN ds[k] ELSE <<>>)
                 \o Flatten(ds, dfvc, Tail(keys))
\* a generator that was already iterated when it is handed on
InstanceGenerator_exhausted(ds, dfvc) ==
    [made |-> TRUE, items |-> Flatten(ds, dfvc, KeyOrder),
     consumed |-> Len(Flatten(ds, dfvc, KeyOrder))]

\* instance_generator = (instance for key, dataset in datasets.items()
\*                       if <selected> for instance in dataset)
InstanceGenerator(ds, dfvc) ==
    [made |-> TRUE, items |-> Flatten(ds, dfvc, KeyOrder), consumed |-> 0]

\* for key in datasets_for_vocab_creation: if key not in datasets: raise
InvalidKeys(ds, dfvc) == {k \in dfvc : k \notin DOMAIN ds}

\* the datasets_for_vocab_creation check, then the generator is created
check_datasets_for_vocab_creation ==
    /\ bpc = "read"
    /\ IF InvalidKeys(datasets, bin.datasets_for_vocab_creation) # {}
       THEN /\ bpc' = "raised" /\ berr' = "ConfigurationError"
            /\ UNCHANGED generator
       ELSE /\ generator' = InstanceGenerator(datasets,
                                              bin.datasets_for_vocab_creation)
            /\ bpc' = "generator" /\ berr' = berr
    /\ UNCHANGED <<bin, datasets, vocabulary_, model_, trainer_, saved_vocab, order>>
    /\ UNCHANGED trainVars

\* what a generator still has to yield
Remaining(gen) == SubSeq(gen.items, gen.consumed + 1, Len(gen.items))

\* a generator after it was iterated to the end
Drained(gen) == [gen EXCEPT !.consumed = Len(gen.items)]

\* Vocabulary.from_instances(instances): counts every instance it is given
FromInstances(gen) ==
    [made |-> TRUE, instances |-> Remaining(gen), how |-> "from_instances"]

\* vocabulary.construct(instances=instance_generator): the vocabulary made
\* (none when the config has no "vocabulary") and the generator afterwards
LazyConstruct(kind, gen) ==
    IF kind = "absent"
    THEN [vocab |-> NoVocabulary, gen |-> gen]
    ELSE IF kind = "from_files"
    THEN [vocab |-> [made |-> TRUE, instances |-> <<>>, how |-> "from_files"],
          gen |-> gen]
    ELSE [vocab |-> FromInstances(gen), gen |-> Drained(gen)]

\* vocabulary_ = vocabulary.construct(...); if not vocabulary_: from_instances
construct_vocabulary ==
    /\ bpc = "generator"
    /\ \E ok \in BOOLEAN :
        LET first == LazyConstruct(bin.vocabulary, generator)
        IN  IF ~ok
            THEN /\ bpc' = "raised" /\ berr' = "Exception"
                 /\ UNCHANGED <<generator, vocabulary_, order>>
            ELSE /\ IF first.vocab.made
                    THEN /\ vocabulary_' = first.vocab
                         /\ generator' = first.gen
                    ELSE /\ vocabulary_' = FromInstances(first.gen)
                         /\ generator' = Drained(first.gen)
                 /\ order' = Append(order, "vocabulary")
                 /\ bpc' = "vocabulary" /\ berr' = berr
    /\ UNCHANGED <<bin, datasets, model_, trainer_, saved_vocab>>
    /\ UNCHANGED trainVars
\* the model constructed without the vocabulary
ConstructModel_novocab(vocab) == [made |-> TRUE, vocab |-> NoVocabulary]

\* model.construct(vocab=vocabulary_)
ConstructModel(vocab) == [made |-> TRUE, vocab |-> vocab]

\* model_ = model.construct(vocab=vocabulary_); the master saves the vocabulary
construct_model ==
    /\ bpc = "vocabulary"
    /\ \E ok \in BOOLEAN, is_master \in BOOLEAN :
        IF ok
        THEN /\ model_' = ConstructModel(vocabulary_)
             /\ saved_vocab' = IF is_master THEN vocabulary_ ELSE saved_vocab
             /\ order' = Append(order, "model")
             /\ bpc' = "model" /\ berr' = berr
        ELSE /\ bpc' = "raised" /\ berr' = "Exception"
             /\ UNCHANGED <<model_, saved_vocab, order>>
    /\ UNCHANGED <<bin, datasets, generator, vocabulary_, trainer_>>
    /\ UNCHANGED trainVars

\* trainer.construct(model=model_, train_data=datasets["train"],
\*                   validation_data=datasets.get("validation"), ...)
ConstructTrainer(m, ds) ==
    [made |-> TRUE, model |-> m, train_data |-> ds["train"],
     validation_data |-> IF "validation" \in DOMAIN ds THEN ds["validation"]
                         ELSE <<>>,
     has_validation |-> "validation" \in DOMAIN ds]

\* the iterators are indexed, the trainer is constructed, TrainModel returned
construct_trainer ==
    /\ bpc = "model"
    /\ \E ok \in BOOLEAN :
        IF ok
        THEN /\ trainer_' = ConstructTrainer(model_, datasets)
             /\ order' = Append(order, "trainer")
             /\ bpc' = "done" /\ berr' = berr
        ELSE /\ bpc' = "raised" /\ berr' = "Exception"
             /\ UNCHANGED <<trainer_, order>>
    /\ UNCHANGED <<bin, datasets, generator, vocabulary_, model_, saved_vocab>>
    /\ UNCHANGED trainVars

NextBuild ==
    \/ read_all_datasets
    \/ check_datasets_for_vocab_creation
    \/ construct_vocabulary
    \/ construct_model
    \/ construct_trainer

SpecBuild == InitBuild /\ [][NextBuild]_vars

\* ------------------------------------------------------------------ C2
ConstructionOrder == <<"data", "vocabulary", "model", "trainer">>

\* C2: from_partial_objects constructs in the order data, vocabulary, model,
\* trainer: the vocabulary exists only after the datasets were read, the model
\* only after the vocabulary and it holds that vocabulary, the trainer only
\* after the model and it holds that model and the training data; after a
\* failed step nothing later is constructed.
C2_ConstructionOrder ==
    pc = "build" =>
        /\ Len(order) <= Len(ConstructionOrder)
        /\ order = SubSeq(ConstructionOrder, 1, Len(order))
        /\ vocabulary_.made <=> Len(order) >= 2
        /\ model_.made <=> Len(order) >= 3
        /\ trainer_.made <=> Len(order) >= 4
        /\ model_.made => model_.vocab = vocabulary_
        /\ trainer_.made =>
             /\ trainer_.model = model_
             /\ trainer_.train_data = datasets["train"]
        /\ bpc = "raised" => ~trainer_.made
        /\ bpc = "done" <=> trainer_.made

C2_Witness ==
    /\ pc = "build"
    /\ bpc = "done"
    /\ order = ConstructionOrder
    /\ Len(trainer_.train_data) > 0
    /\ Len(trainer_.model.vocab.instances) > 0

\* ------------------------------------------------------------------ C8
\* the keys of the datasets used for the vocabulary
VocabKeys ==
    IF bin.datasets_for_vocab_creation = {}
    THEN DOMAIN datasets
    ELSE DOMAIN datasets \cap bin.datasets_for_vocab_creation

\* every instance of every dataset with a key in keys
InstancesOf(keys) ==
    {datasets[k][i] : <<k, i>> \in {x \in keys \X (1..MaxInstances) :
                                       x[2] <= Len(datasets[x[1]])}}

Range(seq) == {seq[i] : i \in 1..Len(seq)}

C9_DatasetsForVocabCreation ==
    (pc = "build" /\ order # <<>> /\ bpc # "read") =>
        /\ generator.made =>
             /\ Range(generator.items) =
                  InstancesOf(IF bin.datasets_for_vocab_creation # {}
                              THEN bin.datasets_for_vocab_creation
                              ELSE DOMAIN datasets)
             /\ Len(generator.items) = Cardinality(Range(generator.items))
        /\ ~(bin.datasets_for_vocab_creation \subseteq DOMAIN datasets) =>
             /\ bpc = "raised"
             /\ berr = "ConfigurationError"
             /\ ~generator.made
             /\ ~vocabulary_.made /\ ~model_.made /\ ~trainer_.made

C9_Witness ==
    /\ pc = "build"
    /\ generator.made
    /\ bin.datasets_for_vocab_creation = {"train", "test"}
    /\ DOMAIN datasets = {"train", "validation", "test"}
    /\ Len(datasets["validation"]) > 0
    /\ Len(generator.items) >= 2

====
